---- MODULE Spec2Model ----
(***************************************************************************)
(* Model of the appointment backend: the voice webhook handler, the direct *)
(* booking path, the tool-calling agent, the booking service and the       *)
(* calendar integration.                                                   *)
(*                                                                         *)
(* Instants are whole seconds since Monday 2024-01-15T00:00:00Z (a JS Date *)
(* is milliseconds since 1970; only order and differences matter, and the  *)
(* formatter of getDatePartsInBusinessTimezone drops everything below the  *)
(* minute, which the second keeps observable).                             *)
(***************************************************************************)
EXTENDS Integers, Sequences, FiniteSets, TLC

VARIABLES
    hourCycle,   \* how the Intl formatter of the build prints the hour of midnight
    now,         \* Date.now(), in seconds
    faults,      \* how many more collaborator calls may fail
    calEvents,   \* events inserted into the calendar by createCalendarEvent
    busy0,       \* busy intervals the calendar held before any request
    appointments,\* rows of prisma.appointment
    req,         \* the inbound request of each flow
    pc,          \* where each flow stands
    loc,         \* the locals of each flow
    callLog,     \* the CallLog row of each flow
    response,    \* the HTTP response of each flow
    trace,       \* ghost: what each flow asked of its collaborators
    fnIn,        \* inputs of the function harness
    fnOut        \* result of the function harness

machineVars == <<now, faults, calEvents, busy0, appointments, req, pc, loc,
                 callLog, response, trace>>
fnVars == <<fnIn, fnOut>>
vars == <<hourCycle, now, faults, calEvents, busy0, appointments, req, pc, loc,
          callLog, response, trace, fnIn, fnOut>>

NULL == "null"

-----------------------------------------------------------------------------
(* Configuration: config/env.ts defaults.                                  *)

BUSINESS_HOURS_START_HOUR == 9
BUSINESS_HOURS_START_MINUTE == 0
BUSINESS_HOURS_END_HOUR == 18
BUSINESS_HOURS_END_MINUTE == 0
BUSINESS_DAYS == {1, 2, 3, 4, 5}
APPOINTMENT_DURATION_MINUTES == 30
DIRECT_DURATION_MINUTES == 30
NORMALIZE_DEFAULT_DURATION == 30
ALTERNATIVE_COUNT == 3
ALTERNATIVE_LOOKAHEAD_DAYS == 60
ALTERNATIVE_CANDIDATE_MULTIPLIER == 10
maxIterations == 10

getBusinessHours ==
    [start |-> [hour |-> BUSINESS_HOURS_START_HOUR, minute |-> BUSINESS_HOURS_START_MINUTE],
     end   |-> [hour |-> BUSINESS_HOURS_END_HOUR, minute |-> BUSINESS_HOURS_END_MINUTE],
     days  |-> BUSINESS_DAYS]

SecPerMin == 60
SecPerHour == 60 * 60
SecPerDay == 24 * 60 * 60

-----------------------------------------------------------------------------
(* BUSINESS_TIMEZONE America/New_York: UTC-5 until 2024-03-10T07:00:00Z    *)
(* (day 55 of the model's epoch, 02:00 local), UTC-4 from then on.         *)

DstStartUtc == 55 * SecPerDay + 7 * SecPerHour

TzOffset(t) == IF t < DstStartUtc THEN 0 - 5 * SecPerHour ELSE 0 - 4 * SecPerHour

(* hour: '2-digit', hour12: false: builds whose ICU maps hour12:false to   *)
(* the h24 cycle print midnight as "24", the others as "00".               *)
FormatHour(local) ==
    LET h == (local \div SecPerHour) % 24
    IN IF h = 0 /\ hourCycle = "h24" THEN 24 ELSE h

getDatePartsInBusinessTimezone(date) ==
    LET local  == date + TzOffset(date)
        hour   == FormatHour(local)
        minute == (local \div SecPerMin) % 60
    IN [dayNumber     |-> ((local \div SecPerDay) % 7) + 1,
        hour          |-> hour,
        minute        |-> minute,
        timeInMinutes |-> hour * 60 + minute]

(* mutant: the closing minute is accepted whatever the option says *)
isWithinBusinessHours_Inclusive(date, allowEndBoundary) ==
    LET hours == getBusinessHours
        parts == getDatePartsInBusinessTimezone(date)
        startInMinutes == hours.start.hour * 60 + hours.start.minute
        endInMinutes   == hours.end.hour * 60 + hours.end.minute
    IN IF parts.dayNumber \notin hours.days THEN FALSE
       ELSE parts.timeInMinutes >= startInMinutes /\ parts.timeInMinutes <= endInMinutes

(* mutant: the allowEndBoundary option is ignored *)
isWithinBusinessHours_Strict(date, allowEndBoundary) ==
    LET hours == getBusinessHours
        parts == getDatePartsInBusinessTimezone(date)
        startInMinutes == hours.start.hour * 60 + hours.start.minute
        endInMinutes   == hours.end.hour * 60 + hours.end.minute
    IN IF parts.dayNumber \notin hours.days THEN FALSE
       ELSE parts.timeInMinutes >= startInMinutes /\ parts.timeInMinutes < endInMinutes

isWithinBusinessHours(date, allowEndBoundary) ==
    LET hours == getBusinessHours
        parts == getDatePartsInBusinessTimezone(date)
        startInMinutes == hours.start.hour * 60 + hours.start.minute
        endInMinutes   == hours.end.hour * 60 + hours.end.minute
    IN IF parts.dayNumber \notin hours.days THEN FALSE
       ELSE IF allowEndBoundary
            THEN parts.timeInMinutes >= startInMinutes /\ parts.timeInMinutes <= endInMinutes
            ELSE parts.timeInMinutes >= startInMinutes /\ parts.timeInMinutes < endInMinutes

(* Date | null is a sequence of at most one instant: << >> is null *)
normalizeAppointmentTime(start, durationMinutes) ==
    LET end == start + durationMinutes * SecPerMin
    IN IF isWithinBusinessHours(start, FALSE) /\ isWithinBusinessHours(end, TRUE)
       THEN <<start>>
       ELSE <<>>

computeEndTime(start) == start + APPOINTMENT_DURATION_MINUTES * SecPerMin

-----------------------------------------------------------------------------
(* Wall clock readings [day, h, m, s]: business-local time, day 0 being    *)
(* Monday 2024-01-15. They name the instants the model draws its inputs    *)
(* from.                                                                   *)

Wall(day, h, m, s) == [day |-> day, h |-> h, m |-> m, s |-> s]

(* the instant of a wall clock reading, by the zone's rule for its date *)
WallInstant(w) ==
    LET off == IF w.day < 55 \/ (w.day = 55 /\ w.h < 2) THEN 0 - 5 * SecPerHour
               ELSE 0 - 4 * SecPerHour
    IN w.day * SecPerDay + w.h * SecPerHour + w.m * SecPerMin + w.s - off

WallWeekday(w) == (w.day % 7) + 1
WallMinutes(w) == w.h * 60 + w.m
OpenMinutes == BUSINESS_HOURS_START_HOUR * 60 + BUSINESS_HOURS_START_MINUTE
CloseMinutes == BUSINESS_HOURS_END_HOUR * 60 + BUSINESS_HOURS_END_MINUTE

-----------------------------------------------------------------------------
(* The calendar collaborator. A calendar is [busy: set of [start, end],    *)
(* up: BOOLEAN]; a call to a calendar that is down rejects.                *)

FreeBusyQuery(busy, timeMin, timeMax) ==
    {b \in busy : b.start < timeMax /\ b.end > timeMin}

(* checkSlotAvailability: whether it threw, and whether the busy list came  *)
(* back empty.                                                              *)
checkSlotAvailability(start, end, cal) ==
    IF ~cal.up THEN [threw |-> TRUE, free |-> FALSE]
    ELSE [threw |-> FALSE, free |-> FreeBusyQuery(cal.busy, start, end) = {}]

(* mutant: the case of a slot that contains the busy period is dropped *)
SlotOverlapsBusy_NoContain(currentTime, slotEnd, busyPeriod) ==
    LET busyStart == busyPeriod.start
        busyEnd   == busyPeriod.end
    IN \/ (currentTime >= busyStart /\ currentTime < busyEnd)
       \/ (slotEnd > busyStart /\ slotEnd <= busyEnd)

SlotOverlapsBusy(currentTime, slotEnd, busyPeriod) ==
    LET busyStart == busyPeriod.start
        busyEnd   == busyPeriod.end
    IN \/ (currentTime >= busyStart /\ currentTime < busyEnd)
       \/ (slotEnd > busyStart /\ slotEnd <= busyEnd)
       \/ (currentTime <= busyStart /\ slotEnd >= busyEnd)

(* mutant: free slots are pushed at the front of the list *)
RECURSIVE ScanSlots_Prepend(_, _, _, _, _, _)
ScanSlots_Prepend(currentTime, endTime, slotDuration, maxResults, busy, availableSlots) ==
    IF currentTime + slotDuration <= endTime /\ Len(availableSlots) < maxResults
    THEN LET slotEnd == currentTime + slotDuration
             isAvailable == ~ \E busyPeriod \in busy :
                                 SlotOverlapsBusy(currentTime, slotEnd, busyPeriod)
         IN ScanSlots_Prepend(currentTime + slotDuration, endTime, slotDuration, maxResults,
                              busy,
                              IF isAvailable THEN <<currentTime>> \o availableSlots
                                             ELSE availableSlots)
    ELSE availableSlots

RECURSIVE ScanSlots(_, _, _, _, _, _)
ScanSlots(currentTime, endTime, slotDuration, maxResults, busy, availableSlots) ==
    IF currentTime + slotDuration <= endTime /\ Len(availableSlots) < maxResults
    THEN LET slotEnd == currentTime + slotDuration
             isAvailable == ~ \E busyPeriod \in busy :
                                 SlotOverlapsBusy(currentTime, slotEnd, busyPeriod)
         IN ScanSlots(currentTime + slotDuration, endTime, slotDuration, maxResults, busy,
                      IF isAvailable THEN Append(availableSlots, currentTime)
                                     ELSE availableSlots)
    ELSE availableSlots

(* findAvailableSlots: whether it threw, and the sequence of free slot starts *)
findAvailableSlots(startDate, endDate, durationMinutes, maxResults, cal) ==
    IF ~cal.up THEN [threw |-> TRUE, slots |-> <<>>]
    ELSE [threw |-> FALSE,
          slots |-> ScanSlots(startDate, endDate, durationMinutes * SecPerMin, maxResults,
                              FreeBusyQuery(cal.busy, startDate, endDate), <<>>)]

-----------------------------------------------------------------------------
(* bookingService.ts *)

REASON_OUTSIDE == "Outside business hours"
REASON_EXTENDS == "Appointment extends beyond business hours"
REASON_BOOKED  == "Time slot is already booked"

(* checkAvailability: the decision, whether it threw, and how many          *)
(* free/busy queries it sent.                                               *)
checkAvailability(start, end, cal) ==
    IF ~isWithinBusinessHours(start, FALSE)
    THEN [threw |-> FALSE, available |-> FALSE, reason |-> REASON_OUTSIDE, queries |-> 0]
    ELSE IF ~isWithinBusinessHours(end, TRUE)
    THEN [threw |-> FALSE, available |-> FALSE, reason |-> REASON_EXTENDS, queries |-> 0]
    ELSE LET q == checkSlotAvailability(start, end, cal)
             isAvailable == q.free
         IN IF q.threw
            THEN [threw |-> TRUE, available |-> FALSE, reason |-> NULL, queries |-> 1]
            ELSE [threw |-> FALSE, available |-> isAvailable,
                  reason |-> IF isAvailable THEN NULL ELSE REASON_BOOKED,
                  queries |-> 1]

(* mutant: the loop over the raw slots does not stop at count *)
RECURSIVE FilterSlots_NoLimit(_, _, _, _)
FilterSlots_NoLimit(slots, i, count, validSlots) ==
    IF i > Len(slots) THEN validSlots
    ELSE LET normalized == normalizeAppointmentTime(slots[i], NORMALIZE_DEFAULT_DURATION)
         IN FilterSlots_NoLimit(slots, i + 1, count,
                        IF normalized # <<>> /\ isWithinBusinessHours(normalized[1], FALSE)
                        THEN Append(validSlots, normalized[1])
                        ELSE validSlots)

RECURSIVE FilterSlots(_, _, _, _)
FilterSlots(slots, i, count, validSlots) ==
    IF i > Len(slots) \/ Len(validSlots) >= count THEN validSlots
    ELSE LET normalized == normalizeAppointmentTime(slots[i], NORMALIZE_DEFAULT_DURATION)
         IN FilterSlots(slots, i + 1, count,
                        IF normalized # <<>> /\ isWithinBusinessHours(normalized[1], FALSE)
                        THEN Append(validSlots, normalized[1])
                        ELSE validSlots)

(* searchEnd.setDate(getDate() + lookAheadDays), the server clock being UTC *)
SearchEnd(requestedStart, lookAheadDays) == requestedStart + lookAheadDays * SecPerDay

(* findNextAvailableSlots: whether it threw, and the sequence of offered starts *)
findNextAvailableSlots(requestedStart, count, lookAheadDays, candidateMultiplier, cal) ==
    LET searchEnd == SearchEnd(requestedStart, lookAheadDays)
        found == findAvailableSlots(requestedStart, searchEnd, APPOINTMENT_DURATION_MINUTES,
                                    count * candidateMultiplier, cal)
    IN IF found.threw THEN [threw |-> TRUE, slots |-> <<>>]
       ELSE [threw |-> FALSE, slots |-> FilterSlots(found.slots, 1, count, <<>>)]

-----------------------------------------------------------------------------
(* The request flows. Each inbound webhook call is one flow; a flow yields *)
(* at every await, and there the other flow or the clock may step.         *)

Requests == {1, 2}

MaxTicks == 1
MaxToolCalls == 2
MaxAgentBooks == 2

TickSeconds == 20 * SecPerMin
Now0 == WallInstant(Wall(0, 10, 0, 0))

T_Free == WallInstant(Wall(0, 14, 0, 0))
T_Soon == WallInstant(Wall(0, 10, 10, 0))
T_Past == WallInstant(Wall(0 - 7, 14, 0, 0))
T_Saturday == WallInstant(Wall(5, 14, 0, 0))
T_Late == WallInstant(Wall(0, 17, 0, 0))
(* the 30-minute window that starts here ends exactly when the run begins *)
T_JustEnded == Now0 - DIRECT_DURATION_MINUTES * SecPerMin

NoDate == [kind |-> "none", t |-> 0]
BadDate == [kind |-> "unparseable", t |-> 0]
At(t) == [kind |-> "instant", t |-> t]

DateChoices ==
    {NoDate, BadDate, At(T_Free), At(T_Soon), At(T_Late), At(T_JustEnded), At(T_Past),
     At(T_Saturday)}

(* vapiValid and twilioValid are what verifyVapiRequest and                 *)
(* verifyTwilioRequest return for the request; a called number comes with  *)
(* the requests of a free slot and of a past one                           *)
BothProviderInputs ==
    {i \in [name : BOOLEAN, dateTime : DateChoices, called : {"none", "known", "unknown"},
            vapiValid : BOOLEAN, twilioValid : BOOLEAN,
            payload : {"toolcall", "empty", "unrecognized"}, toolCallId : {"call_1"}] :
        /\ i.vapiValid = i.twilioValid
        /\ i.called # "none" => i.dateTime \in {At(T_Free), At(T_Past)}}

(* a webhook that carries the signature of one provider only: drawn for    *)
(* the request of a named caller                                           *)
OneProviderInputs ==
    {[i EXCEPT !.vapiValid = v, !.twilioValid = ~v] :
        i \in {j \in BothProviderInputs :
                  /\ j.name /\ j.payload = "toolcall" /\ j.called = "none"
                  /\ j.dateTime \in {At(T_Free), At(T_Past)}},
        v \in BOOLEAN}

RequestInputs == BothProviderInputs \cup OneProviderInputs

(* the requests of two deliveries that ask for the same free slot *)
CompetitorInputs ==
    {i \in RequestInputs :
        /\ i.name /\ i.vapiValid /\ i.twilioValid /\ i.payload = "toolcall" /\ i.called = "none"
        /\ i.dateTime = At(T_Free)}

Window(start, end) == [start |-> start, end |-> end]

(* the windows the model may put in a tool call: startTime and endTime are  *)
(* both its own, so the length is whatever it writes                       *)
AgentWindows ==
    { Window(T_Free, T_Free + 30 * SecPerMin),
      Window(T_Free + 30 * SecPerMin, T_Free + 90 * SecPerMin),
      Window(T_Past, T_Past + 30 * SecPerMin) }

ToolCalls ==
    { [name |-> "checkAvailability", win |-> Window(T_Free, T_Free + 30 * SecPerMin),
       json |-> TRUE] }
    \cup [name : {"bookAppointment"}, win : AgentWindows, json : {TRUE}]
    \cup { [name |-> "unknownTool", win |-> Window(0, 0), json |-> TRUE],
           [name |-> "bookAppointment", win |-> Window(0, 0), json |-> FALSE] }

PromptToolCalls ==
    [name : {"checkAvailability", "bookAppointment"},
     win : {Window(T_Free, T_Free + 30 * SecPerMin)}, json : {TRUE}]

RECURSIVE SeqsUpTo(_, _)
SeqsUpTo(S, n) ==
    IF n = 0 THEN {<<>>}
    ELSE LET shorter == SeqsUpTo(S, n - 1)
         IN shorter \cup {Append(q, x) : q \in shorter, x \in S}

NoResult == [status |-> "none", message |-> "none", times |-> <<>>, booked |-> FALSE]
NoResponse == [http |-> 0, shape |-> "none", toolCallId |-> "", body |-> "none"]
NoCallLog == [status |-> "none", toolCallId |-> "", bookedStart |-> <<>>, bookedEnd |-> <<>>,
              updates |-> 0]
NoTrace == [resolvedOk |-> {}, createCalls |-> {}, calendar |-> {}, db |-> {},
            created |-> 0, persisted |-> 0, books |-> 0, searches |-> {},
            toolTurns |-> 0, modelErrors |-> 0, calErrors |-> {}]
NoLocals == [businessId |-> FALSE, callLogId |-> FALSE, path |-> "none",
             win |-> Window(0, 0), caller |-> "none", iteration |-> 0, tools |-> <<>>,
             conversationHistory |-> <<>>, toolResults |-> <<>>,
             result |-> NoResult]

(* the calendar as the collaborator sees it at a call *)
Cal(up) ==
    [busy |-> busy0 \cup {Window(e.start, e.end) : e \in calEvents}, up |-> up]

MaxFaults == 1

(* never written by a flow *)
envVars == <<hourCycle, busy0, req, fnIn, fnOut>>

IdleInput ==
    [name |-> TRUE, dateTime |-> NoDate, called |-> "none", vapiValid |-> TRUE,
     twilioValid |-> TRUE,
     payload |-> "toolcall", toolCallId |-> "call_1"]

(* the hour cycle shows only in the hour after local midnight, which is    *)
(* outside business hours under either reading (hour 0 is before opening,  *)
(* hour 24 is after closing): the flows run under one cycle, FnInit draws  *)
(* both                                                                    *)
MachineStart ==
    /\ hourCycle = "h23"
    /\ now = Now0
    /\ calEvents = {}
    /\ appointments = {}
    /\ loc = [r \in Requests |-> NoLocals]
    /\ callLog = [r \in Requests |-> NoCallLog]
    /\ response = [r \in Requests |-> NoResponse]
    /\ trace = [r \in Requests |-> NoTrace]
    /\ fnIn = [op |-> "none"]
    /\ fnOut = [op |-> "none"]

(* the one slot the calendar may hold as busy when a request comes in: the  *)
(* slot the request asks for                                               *)
BusySlot(i) ==
    Window(i.dateTime.t, i.dateTime.t + DIRECT_DURATION_MINUTES * SecPerMin)

(* the calendars a request may meet: empty, or busy at the requested slot  *)
Calendars(i) == IF i.dateTime.kind = "instant" THEN {{}, {BusySlot(i)}} ELSE {{}}

(* one flow, any request, up to MaxFaults failing collaborator calls *)
Init ==
    /\ MachineStart
    /\ faults = MaxFaults
    /\ \E i \in RequestInputs :
          /\ req = [r \in Requests |-> IF r = 1 THEN i ELSE IdleInput]
          /\ busy0 \in Calendars(i)
    /\ pc = [r \in Requests |-> IF r = 1 THEN "start" ELSE "absent"]

(* in a race at most one collaborator call fails *)
RaceFaults == {1}

(* the second delivery is the first one sent again: it carries the same    *)
(* tool-call id                                                            *)
DeliveryIds == {"call_1"}

(* two well-formed flows for one free window, handled concurrently *)
RaceInit ==
    /\ MachineStart
    /\ busy0 = {}
    /\ faults \in RaceFaults
    /\ \E i \in CompetitorInputs, id \in DeliveryIds :
          req = [r \in Requests |-> IF r = 1 THEN i ELSE [i EXCEPT !.toolCallId = id]]
    /\ pc = [r \in Requests |-> "start"]

(* time passes while a request is handled: Now0 is the instant the first   *)
(* request is received                                                     *)
Tick ==
    /\ \E r \in Requests : pc[r] \notin {"start", "absent"}
    /\ now < Now0 + MaxTicks * TickSeconds
    /\ now' = now + TickSeconds
    /\ UNCHANGED <<envVars, faults, calEvents, appointments, pc, loc, callLog, response,
                   trace>>

(* the outcomes a collaborator call may have: TRUE is success *)
Ups == IF faults > 0 THEN BOOLEAN ELSE {TRUE}

(* a failed call uses up one of the failures the run may still see *)
Charge(failed) == faults' = IF failed THEN faults - 1 ELSE faults

(* ---- controllers/voiceWebhook.ts: handleVoiceWebhook ---- *)

PAST_REPLY == "The date provided appears to be in the past."
ERROR_REPLY == "An error occurred while processing your appointment request."

(* the id the inbound tool call carries *)
ToolCallId(r) == req[r].toolCallId

(* { results: [{ toolCallId, result }] } with details.toolCallId *)
VapiResults(r, http, result) ==
    [http |-> http, shape |-> "results", toolCallId |-> ToolCallId(r), body |-> result]

(* the reply of the catch block: the id is read again from the payload, and *)
(* is unknown when the payload holds no tool call                          *)
ErrorResponse(r) ==
    [http |-> 500, shape |-> "results",
     toolCallId |-> IF req[r].payload = "toolcall" THEN ToolCallId(r) ELSE "unknown",
     body |-> ERROR_REPLY]

(* { error: message } *)
ErrorJson(http, message) ==
    [http |-> http, shape |-> "error", toolCallId |-> "", body |-> message]

(* res.send(text) *)
PlainText(http, text) ==
    [http |-> http, shape |-> "text", toolCallId |-> "", body |-> text]

(* { action: 'hangup' } *)
Hangup == [http |-> 200, shape |-> "action", toolCallId |-> "", body |-> "hangup"]

(* res.status(...).json(...); return *)
Finish(r, reply) ==
    /\ response' = [response EXCEPT ![r] = reply]
    /\ pc' = [pc EXCEPT ![r] = "done"]

(* the called-number lookup that routes the call to a business *)
RouteBusiness(r) ==
    /\ pc[r] = "start"
    /\ IF req[r].called = "none"
       THEN /\ pc' = [pc EXCEPT ![r] = "validate"]
            /\ UNCHANGED <<loc, response, trace, faults>>
       ELSE \E dbUp \in Ups :
              /\ Charge(~dbUp)
              /\ trace' = [trace EXCEPT ![r].db = @ \cup {"business.findUnique"}]
              /\ IF ~dbUp
                 THEN Finish(r, ErrorResponse(r)) /\ UNCHANGED loc
                 ELSE IF req[r].called = "unknown"
                 THEN Finish(r, Hangup) /\ UNCHANGED loc
                 ELSE /\ loc' = [loc EXCEPT ![r].businessId = TRUE]
                      /\ pc' = [pc EXCEPT ![r] = "validate"]
                      /\ UNCHANGED response
    /\ UNCHANGED <<envVars, now, calEvents, appointments, callLog>>

(* mutant: both verifications must succeed *)
SignatureAccepted_Both(q) == q.vapiValid /\ q.twilioValid

(* the request is refused only if (!vapiValid && !twilioValid) *)
SignatureAccepted(q) == q.vapiValid \/ q.twilioValid

(* mutant: the tool-call list is not looked at *)
HasToolCalls_Always(q) == TRUE

(* payload.body.message.toolCalls is present and not empty *)
HasToolCalls(q) == q.payload = "toolcall"

(* mutant: the name is not looked at *)
NameMissing_Never(q) == FALSE

(* if (!details.name) *)
NameMissing(q) == ~q.name

(* mutant: the guard compares the end of the window, strictly *)
IsPast_WindowEnd(q) ==
    q.dateTime.kind = "instant" /\ q.dateTime.t + DIRECT_DURATION_MINUTES * SecPerMin < now

(* mutant: no guard *)
IsPast_Never(q) == FALSE

(* the guard against past dates: requestedStart.getTime() < Date.now() *)
IsPast(q) == q.dateTime.kind = "instant" /\ q.dateTime.t < now

(* signature, payload, name and past-date checks: no await between them *)
Validate(r) ==
    /\ pc[r] = "validate"
    /\ LET q == req[r]
       IN IF ~SignatureAccepted(q) THEN Finish(r, ErrorJson(401, "Invalid webhook signature"))
          ELSE IF ~HasToolCalls(q)
          THEN IF q.payload = "unrecognized"
               THEN Finish(r, ErrorJson(400, "Invalid webhook payload. No message.toolCalls found."))
               ELSE Finish(r, PlainText(200, "No tool calls to handle"))
          ELSE IF NameMissing(q) THEN Finish(r, ErrorJson(400, "Name is required"))
          ELSE IF IsPast(q) THEN Finish(r, VapiResults(r, 200, PAST_REPLY))
          ELSE /\ pc' = [pc EXCEPT ![r] = "create_log"]
               /\ UNCHANGED response
    /\ UNCHANGED <<envVars, now, faults, calEvents, appointments, loc, callLog, trace>>

(* mutant: the table takes one row per tool-call id *)
CallLogInsertAccepted_UniqueToolCallId(dbUp, r) ==
    dbUp /\ \A o \in Requests : callLog[o].toolCallId # ToolCallId(r)

(* prisma.callLog.create: the table has no unique index on toolCallId *)
CallLogInsertAccepted(dbUp, r) == dbUp

CreateCallLog(r) ==
    /\ pc[r] = "create_log"
    /\ \E dbUp \in Ups :
          /\ Charge(~dbUp)
          /\ trace' = [trace EXCEPT ![r].db = @ \cup {"callLog.create"}]
          /\ IF CallLogInsertAccepted(dbUp, r)
             THEN /\ callLog' = [callLog EXCEPT ![r] =
                          [NoCallLog EXCEPT !.status = "pending",
                                            !.toolCallId = ToolCallId(r)]]
                  /\ loc' = [loc EXCEPT ![r].callLogId = TRUE]
                  /\ pc' = [pc EXCEPT ![r] =
                               IF req[r].dateTime.kind = "instant" THEN "direct_check"
                                                                   ELSE "agent_turn"]
                  /\ UNCHANGED response
             ELSE Finish(r, ErrorResponse(r)) /\ UNCHANGED <<callLog, loc>>
    /\ UNCHANGED <<envVars, now, calEvents, appointments>>

UpdateCallLog(r) ==
    /\ pc[r] = "update_log"
    /\ \E dbUp \in Ups :
          LET result == loc[r].result
              booked == result.status = "booked" /\ result.times # <<>>
          IN /\ Charge(~dbUp)
             /\ trace' = [trace EXCEPT ![r].db = @ \cup {"callLog.update"}]
             /\ IF dbUp
                THEN /\ callLog' = [callLog EXCEPT ![r] =
                          [status      |-> result.status,
                           toolCallId  |-> @.toolCallId,
                           bookedStart |-> IF booked THEN <<result.times[1]>> ELSE <<>>,
                           bookedEnd   |-> IF booked
                                           THEN <<result.times[1] + 30 * SecPerMin>>
                                           ELSE <<>>,
                           updates     |-> @.updates + 1]]
                     /\ Finish(r, VapiResults(r, 200, result.message))
                ELSE Finish(r, ErrorResponse(r)) /\ UNCHANGED callLog
    /\ UNCHANGED <<envVars, now, calEvents, appointments, loc>>

(* ---- services/bookingService.ts: bookAppointment, one step per await ---- *)

(* what a resolution adds to the flow's record of its collaborator calls *)
Resolved(t, win, res, site) ==
    [t EXCEPT !.calendar   = IF res.queries > 0 THEN @ \cup {"freebusy.query"} ELSE @,
              !.resolvedOk = IF ~res.threw /\ res.available THEN @ \cup {win} ELSE @,
              !.calErrors  = IF res.threw THEN @ \cup {site} ELSE @]

(* the place of a calendar call inside bookAppointment, by its caller *)
BookSite(r, step) == IF loc[r].caller = "direct" THEN step ELSE "tool"

(* a turn of the transcript: its role and the correlation ids it carries   *)
(* (the tool_calls of an assistant message, the tool_call_id of a tool     *)
(* turn); contents are left out                                            *)
Turn(role, ids) == [role |-> role, ids |-> ids]

(* conversationHistory as processAppointmentRequest builds it *)
InitialHistory == <<Turn("system", <<>>), Turn("user", <<>>)>>

(* mutant: the tool turns are pushed last first *)
PushResults_Reversed(history, results) ==
    history \o [i \in 1..Len(results) |-> results[Len(results) + 1 - i]]

(* conversationHistory.push(...toolResults) *)
PushResults(history, results) == history \o results

(* executeTool returned its text for the first pending tool call: the tool  *)
(* turn joins toolResults, which are pushed after the last call             *)
ToolReturned(l) ==
    LET results == Append(l.toolResults, Turn("tool", <<Head(l.tools).id>>))
    IN IF Len(l.tools) > 1
       THEN [l EXCEPT !.tools = Tail(@), !.toolResults = results]
       ELSE [l EXCEPT !.tools = <<>>, !.toolResults = <<>>,
                      !.conversationHistory = PushResults(@, results)]

(* after a tool call returned its text: the next tool call, or the model *)
AfterTool(r) == IF Len(loc[r].tools) > 1 THEN "agent_tool" ELSE "agent_turn"

(* mutant: a rejected booking on the direct path is handed to the agent *)
BookThrows_ToAgent(r) ==
    IF loc[r].caller = "direct"
    THEN /\ pc' = [pc EXCEPT ![r] = "agent_turn"]
         /\ UNCHANGED loc
    ELSE /\ pc' = [pc EXCEPT ![r] = AfterTool(r)]
         /\ loc' = [loc EXCEPT ![r] = ToolReturned(@)]

(* mutant: a rejected booking on the direct path is reported as booked *)
BookThrows_ReportsBooked(r) ==
    IF loc[r].caller = "direct"
    THEN /\ pc' = [pc EXCEPT ![r] = "update_log"]
         /\ loc' = [loc EXCEPT ![r].result =
                [status |-> "booked", message |-> "The appointment has been booked",
                 times |-> <<loc[r].win.start>>, booked |-> TRUE]]
    ELSE /\ pc' = [pc EXCEPT ![r] = AfterTool(r)]
         /\ loc' = [loc EXCEPT ![r] = ToolReturned(@)]

(* bookAppointment rejected: the direct path catches it and searches for   *)
(* alternatives, executeTool turns it into an error text.                  *)
BookThrows(r) ==
    IF loc[r].caller = "direct"
    THEN /\ pc' = [pc EXCEPT ![r] = "alt_search"]
         /\ UNCHANGED loc
    ELSE /\ pc' = [pc EXCEPT ![r] = AfterTool(r)]
         /\ loc' = [loc EXCEPT ![r] = ToolReturned(@)]

(* mutant: bookAppointment goes to the calendar insert without validating *)
BookCheck_Skipped(r) ==
    /\ pc[r] = "book_check"
    /\ pc' = [pc EXCEPT ![r] = "book_create"]
    /\ UNCHANGED <<envVars, now, faults, calEvents, appointments, loc, callLog, response,
                   trace>>

BookCheck(r) ==
    /\ pc[r] = "book_check"
    /\ \E up \in Ups :
          LET w == loc[r].win
              availability == checkAvailability(w.start, w.end, Cal(up))
          IN /\ Charge(availability.threw)
             /\ trace' = [trace EXCEPT
                             ![r] = Resolved(@, w, availability, BookSite(r, "recheck"))]
             /\ IF ~availability.threw /\ availability.available
                THEN /\ pc' = [pc EXCEPT ![r] = "book_create"]
                     /\ UNCHANGED loc
                ELSE BookThrows(r)
    /\ UNCHANGED <<envVars, now, calEvents, appointments, callLog, response>>

(* mutant: the calendar refuses an event that overlaps one it holds *)
InsertAccepted_NoConflict(up, w) ==
    up /\ \A e \in calEvents : ~(w.start < e.end /\ e.start < w.end)

(* events.insert succeeds whenever the API answers: it looks at no other event *)
InsertAccepted(up, w) == up

CreateEvent(r) ==
    /\ pc[r] = "book_create"
    /\ \E up \in Ups :
          LET w == loc[r].win
              ok == InsertAccepted(up, w)
          IN /\ Charge(~up)
             /\ trace' = [trace EXCEPT
                             ![r].calendar = @ \cup {"events.insert"},
                             ![r].createCalls = @ \cup {w},
                             ![r].calErrors =
                                 IF up THEN @ ELSE @ \cup {BookSite(r, "insert")},
                             ![r].created = IF ok THEN @ + 1 ELSE @]
             /\ IF ok
                THEN /\ calEvents' = calEvents \cup
                            {[start |-> w.start, end |-> w.end, by |-> r,
                              n |-> trace[r].created + 1]}
                     /\ pc' = [pc EXCEPT ![r] = "book_persist"]
                     /\ UNCHANGED loc
                ELSE BookThrows(r) /\ UNCHANGED calEvents
    /\ UNCHANGED <<envVars, now, appointments, callLog, response>>

PersistAppointment(r) ==
    /\ pc[r] = "book_persist"
    /\ \E dbUp \in Ups :
          LET w == loc[r].win
          IN /\ Charge(~dbUp)
             /\ trace' = [trace EXCEPT
                             ![r].db = @ \cup {"appointment.create"},
                             ![r].persisted = IF dbUp THEN @ + 1 ELSE @]
             /\ IF dbUp
                THEN /\ appointments' = appointments \cup
                            {[start |-> w.start, end |-> w.end, by |-> r,
                              n |-> trace[r].created]}
                     /\ IF loc[r].caller = "direct"
                        THEN /\ loc' = [loc EXCEPT ![r].result =
                                   [status |-> "booked",
                                    message |-> "The appointment has been booked",
                                    times |-> <<w.start>>, booked |-> TRUE]]
                             /\ pc' = [pc EXCEPT ![r] = "update_log"]
                        ELSE /\ loc' = [loc EXCEPT ![r] = ToolReturned(@)]
                             /\ pc' = [pc EXCEPT ![r] = AfterTool(r)]
                ELSE BookThrows(r) /\ UNCHANGED appointments
    /\ UNCHANGED <<envVars, now, calEvents, callLog, response>>

(* ---- services/llmAgent.ts: processAppointmentRequestWithAlternatives ---- *)

(* mutant: an error of the first check counts as unavailable *)
AfterDirectCheck_ErrorMeansSearch(availability) ==
    IF ~availability.threw /\ availability.available THEN "book_check" ELSE "alt_search"

(* where the first check leads: an error is caught by the outer try and the *)
(* function falls through to the agent                                      *)
AfterDirectCheck(availability) ==
    IF availability.threw THEN "agent_turn"
    ELSE IF availability.available THEN "book_check"
    ELSE "alt_search"

DirectCheck(r) ==
    /\ pc[r] = "direct_check"
    /\ \E up \in Ups :
          LET requestedStart == req[r].dateTime.t
              requestedEnd == requestedStart + DIRECT_DURATION_MINUTES * SecPerMin
              w == Window(requestedStart, requestedEnd)
              availability == checkAvailability(requestedStart, requestedEnd, Cal(up))
          IN /\ Charge(availability.threw)
             /\ trace' = [trace EXCEPT ![r] = Resolved(@, w, availability, "check")]
             /\ loc' = [loc EXCEPT ![r].path = "direct", ![r].win = w,
                                   ![r].caller = "direct"]
             /\ pc' = [pc EXCEPT ![r] = AfterDirectCheck(availability)]
    /\ UNCHANGED <<envVars, now, calEvents, appointments, callLog, response>>

AltSearch(r) ==
    /\ pc[r] = "alt_search"
    /\ \E up \in Ups :
          LET alternatives ==
                  findNextAvailableSlots(req[r].dateTime.t, ALTERNATIVE_COUNT,
                                         ALTERNATIVE_LOOKAHEAD_DAYS,
                                         ALTERNATIVE_CANDIDATE_MULTIPLIER, Cal(up))
          IN /\ Charge(alternatives.threw)
             /\ trace' = [trace EXCEPT
                             ![r].calendar = @ \cup {"freebusy.query"},
                             ![r].searches = @ \cup {ALTERNATIVE_COUNT},
                             ![r].calErrors =
                                 IF alternatives.threw THEN @ \cup {"search"} ELSE @]
             /\ IF alternatives.threw
                THEN /\ pc' = [pc EXCEPT ![r] = "agent_turn"]
                     /\ UNCHANGED loc
                ELSE /\ loc' = [loc EXCEPT ![r].result =
                           [status |-> "suggested_alternatives",
                            message |-> IF Len(alternatives.slots) > 0
                                        THEN "The requested time is unavailable, these times are"
                                        ELSE "The requested time is unavailable, and no alternative times were found",
                            times |-> alternatives.slots, booked |-> FALSE]]
                     /\ pc' = [pc EXCEPT ![r] = "update_log"]
    /\ UNCHANGED <<envVars, now, calEvents, appointments, callLog, response>>

(* ---- services/llmAgent.ts: processAppointmentRequest, executeTool ---- *)

(* the texts the model may end a conversation with; "" is no content *)
(* the two sentences the prompt asks for *)
PromptTexts ==
    { "The appointment has been booked",
      "The requested time is unavailable, these times are" }

(* the final texts the model may give: the sentences of the prompt on any  *)
(* turn, a wording of its own or no content as its first answer            *)
ModelTexts(first) ==
    PromptTexts
        \cup (IF first THEN {"Your slot is booked", "These Times Are open", ""} ELSE {})

DEFAULT_CONTENT == "Appointment processing completed."

(* a text as the sequence of its words and punctuation marks *)
Words(content) ==
    CASE content = "The appointment has been booked" ->
             <<"The", "appointment", "has", "been", "booked">>
      [] content = "Your slot is booked" -> <<"Your", "slot", "is", "booked">>
      [] content = "The requested time is unavailable, these times are" ->
             <<"The", "requested", "time", "is", "unavailable", ",", "these", "times",
               "are">>
      [] content = "These Times Are open" -> <<"These", "Times", "Are", "open">>
      [] content = DEFAULT_CONTENT -> <<"Appointment", "processing", "completed", ".">>
      [] content = "" -> <<>>

(* String.prototype.toLowerCase, word by word *)
LowerWord(w) ==
    CASE w = "The" -> "the"
      [] w = "Your" -> "your"
      [] w = "These" -> "these"
      [] w = "Times" -> "times"
      [] w = "Are" -> "are"
      [] w = "Appointment" -> "appointment"
      [] OTHER -> w

toLowerCase(words) == [i \in DOMAIN words |-> LowerWord(words[i])]

(* String.prototype.includes: the phrase occurs as a run of the text *)
includes(words, phrase) ==
    \E i \in 1..(Len(words) - Len(phrase) + 1) :
        SubSeq(words, i, i + Len(phrase) - 1) = phrase

BOOKED_PHRASE == <<"appointment", "has", "been", "booked">>

(* mutant: an empty content is passed on as it is *)
FinalContent_Raw(text) == text

(* message.content || 'Appointment processing completed.' *)
FinalContent(text) == IF text = "" THEN DEFAULT_CONTENT ELSE text

(* mutant: the word booked alone counts as a booking *)
ClassifyText_Keyword(content) ==
    LET lower == toLowerCase(Words(content))
    IN IF includes(lower, <<"booked">>) THEN "booked"
       ELSE IF includes(lower, <<"unavailable">>) \/ includes(lower, <<"these", "times", "are">>)
       THEN "suggested_alternatives"
       ELSE "failed"

(* status from the final text: content.toLowerCase().includes(...) *)
ClassifyText(content) ==
    LET lower == toLowerCase(Words(content))
    IN IF includes(lower, BOOKED_PHRASE) THEN "booked"
       ELSE IF includes(lower, <<"unavailable">>) \/ includes(lower, <<"these", "times", "are">>)
       THEN "suggested_alternatives"
       ELSE "failed"

(* the tool_calls of one assistant message: any one tool call, or, in the  *)
(* model's first message, up to MaxToolCalls calls of the two tools of the *)
(* prompt for the 30-minute window                                         *)
ToolMessages(first) ==
    {<<c>> : c \in ToolCalls}
        \cup (IF first THEN SeqsUpTo(PromptToolCalls, MaxToolCalls) ELSE {})

(* what the model may answer on a turn: it fails, it answers with a text,  *)
(* or it asks for tools                                                    *)
ModelOutcomes(r) ==
    {[kind |-> "throws", text |-> "", tools |-> <<>>] : x \in {y \in {1} : faults > 0}}
    \cup {[kind |-> "text", text |-> t, tools |-> <<>>] : t \in ModelTexts(loc[r].iteration = 0)}
    \cup {[kind |-> "tools", text |-> "", tools |-> q] :
             q \in {x \in ToolMessages(loc[r].iteration = 0) :
                      /\ x # <<>>
                      /\ Cardinality({i \in DOMAIN x : x[i].name = "bookAppointment"
                                                       /\ x[i].json})
                            + trace[r].books <= MaxAgentBooks}}

(* the transcript the model is called with: built before the first call *)
HistoryBefore(r) ==
    IF loc[r].iteration = 0 THEN InitialHistory ELSE loc[r].conversationHistory

(* the ids the model gives the n tool calls of its message *)
CallIds(r, n) == [i \in 1..n |-> <<loc[r].iteration + 1, i>>]

WithIds(r, tools) ==
    [i \in 1..Len(tools) |->
        [name |-> tools[i].name, win |-> tools[i].win, json |-> tools[i].json,
         id |-> CallIds(r, Len(tools))[i]]]

AgentTurn(r) ==
    /\ pc[r] = "agent_turn"
    /\ IF loc[r].iteration >= maxIterations
       THEN /\ loc' = [loc EXCEPT ![r].result =
                  [status |-> "failed",
                   message |-> "Unable to complete appointment booking. Please try again.",
                   times |-> <<>>, booked |-> FALSE]]
            /\ pc' = [pc EXCEPT ![r] = "update_log"]
            /\ UNCHANGED <<response, faults, trace>>
       ELSE \E out \in ModelOutcomes(r) :
              IF out.kind = "throws"
              THEN /\ loc' = [loc EXCEPT ![r].iteration = @ + 1, ![r].path = "agent",
                                         ![r].conversationHistory = HistoryBefore(r)]
                   /\ Charge(TRUE)
                   /\ Finish(r, ErrorResponse(r))
                   /\ trace' = [trace EXCEPT ![r].modelErrors = @ + 1]
              ELSE IF out.kind = "text"
              THEN /\ loc' = [loc EXCEPT ![r].iteration = @ + 1, ![r].path = "agent",
                                         ![r].conversationHistory =
                                             Append(HistoryBefore(r),
                                                    Turn("assistant", <<>>)),
                                         ![r].result =
                             [status |-> ClassifyText(FinalContent(out.text)),
                              message |-> FinalContent(out.text),
                              times |-> <<>>, booked |-> FALSE]]
                   /\ pc' = [pc EXCEPT ![r] = "update_log"]
                   /\ UNCHANGED <<response, faults, trace>>
              ELSE /\ loc' = [loc EXCEPT ![r].iteration = @ + 1, ![r].path = "agent",
                                         ![r].conversationHistory =
                                             Append(HistoryBefore(r),
                                                    Turn("assistant",
                                                         CallIds(r, Len(out.tools)))),
                                         ![r].tools = WithIds(r, out.tools)]
                   /\ trace' = [trace EXCEPT ![r].toolTurns = @ + 1]
                   /\ pc' = [pc EXCEPT ![r] = "agent_tool"]
                   /\ UNCHANGED <<response, faults>>
    /\ UNCHANGED <<envVars, now, calEvents, appointments, callLog>>

(* mutant: the bookAppointment tool refuses only an end that is not after  *)
(* the start                                                               *)
ToolWindowRefused_EndOnly(w) == w.end <= w.start

(* executeTool, bookAppointment branch: the two validations before the     *)
(* booking service is called                                               *)
ToolWindowRefused(w) == w.end <= w.start \/ w.start < now

AgentTool(r) ==
    /\ pc[r] = "agent_tool"
    /\ LET toolCall == Head(loc[r].tools)
           w == toolCall.win
       IN IF ~toolCall.json
          THEN Finish(r, ErrorResponse(r)) /\ UNCHANGED <<loc, trace, faults>>
          ELSE IF toolCall.name = "checkAvailability"
          THEN \E up \in Ups :
                 LET result == checkAvailability(w.start, w.end, Cal(up))
                 IN /\ Charge(result.threw)
                    /\ trace' = [trace EXCEPT ![r] = Resolved(@, w, result, "tool")]
                    /\ loc' = [loc EXCEPT ![r] = ToolReturned(@)]
                    /\ pc' = [pc EXCEPT ![r] = AfterTool(r)]
                    /\ UNCHANGED response
          ELSE IF toolCall.name = "bookAppointment" /\ ~ToolWindowRefused(w)
          THEN /\ loc' = [loc EXCEPT ![r].win = w, ![r].caller = "tool"]
               /\ trace' = [trace EXCEPT ![r].books = @ + 1]
               /\ pc' = [pc EXCEPT ![r] = "book_check"]
               /\ UNCHANGED <<response, faults>>
          ELSE /\ loc' = [loc EXCEPT ![r] = ToolReturned(@)]
               /\ pc' = [pc EXCEPT ![r] = AfterTool(r)]
               /\ UNCHANGED <<response, trace, faults>>
    /\ UNCHANGED <<envVars, now, calEvents, appointments, callLog>>

Next ==
    \/ Tick
    \/ \E r \in Requests :
          \/ RouteBusiness(r)
          \/ Validate(r)
          \/ CreateCallLog(r)
          \/ DirectCheck(r)
          \/ BookCheck(r)
          \/ CreateEvent(r)
          \/ PersistAppointment(r)
          \/ AltSearch(r)
          \/ AgentTurn(r)
          \/ AgentTool(r)
          \/ UpdateCallLog(r)

Spec == Init /\ [][Next]_vars

RaceSpec == RaceInit /\ [][Next]_vars

-----------------------------------------------------------------------------
(* Payload normalization (voiceWebhook.ts parseRequest, findToolCallDeep;  *)
(* callLogService.ts parseToolArguments, normalizeArguments).              *)
(* A JSON value is a record of fixed fields; a key that is absent holds    *)
(* UNDEF. An arguments value is undefined, an object, the JSON text of an  *)
(* object, or a text that is no JSON.                                      *)

MaxCalls == 1

UNDEF == "undefined"
TOOL_CALL_AUTO == "tool_call_auto"

ToolCallIds == {UNDEF, "call_1"}
ToolNames == {UNDEF, "bookAppointment"}

(* the keys normalizeArguments reads for the caller's name *)
ArgObjects == [Name : {UNDEF, "Ann"}, name : {UNDEF, "Bob"}]
EmptyArgs == [Name |-> UNDEF, name |-> UNDEF]

UndefinedArgs == [kind |-> "undefined", obj |-> EmptyArgs]
ArgValues ==
    {UndefinedArgs, [kind |-> "badstring", obj |-> EmptyArgs]}
        \cup [kind : {"string", "object"}, obj : ArgObjects]

NoFunction == [defined |-> FALSE, name |-> UNDEF, arguments |-> UndefinedArgs]

(* { id, name, arguments }: the form of a top-level toolCall *)
FlatToolCall(id, name, arguments) ==
    [id |-> id, name |-> name, arguments |-> arguments, function |-> NoFunction]

(* { id, function: { name, arguments } }: the form of message.toolCalls[i] *)
NestedToolCall(id, name, arguments) ==
    [id |-> id, name |-> UNDEF, arguments |-> UndefinedArgs,
     function |-> [defined |-> TRUE, name |-> name, arguments |-> arguments]]

ToolCallObjects ==
    {FlatToolCall(i, n, a) : i \in ToolCallIds, n \in ToolNames, a \in ArgValues}
        \cup {NestedToolCall(i, n, a) : i \in ToolCallIds, n \in ToolNames, a \in ArgValues}

(* wrapper "body": { body: { message: { toolCalls: calls } } };            *)
(* "message": { message: { toolCalls: calls } }; "toolCall": { toolCall:   *)
(* calls[1] }; "unknown": calls under a key the parser does not know,      *)
(* depth counting the body objects around it                               *)
Payload(wrapper, calls) == [wrapper |-> wrapper, depth |-> 0, calls |-> calls]

Payloads ==
    {Payload(w, c) : w \in {"body", "message", "unknown"},
                     c \in SeqsUpTo(ToolCallObjects, MaxCalls)}
        \cup {Payload("toolCall", <<tc>>) : tc \in ToolCallObjects}

(* typeof a === 'string' ? a : JSON.stringify(a ?? {}) *)
stringifiedArgs(a) ==
    IF a.kind \in {"string", "badstring"} THEN a
    ELSE [kind |-> "string", obj |-> IF a.kind = "undefined" THEN EmptyArgs ELSE a.obj]

NoCandidate == [found |-> FALSE, id |-> UNDEF, name |-> UNDEF, arguments |-> UndefinedArgs]

(* one object of the scan: the direct shape { name, arguments }, else the  *)
(* traversal of its keys, of which only function can hold that shape       *)
DeepObject(o) ==
    IF o.name # UNDEF /\ o.arguments.kind # "undefined"
    THEN [found |-> TRUE, id |-> o.id, name |-> o.name, arguments |-> o.arguments]
    ELSE IF o.function.defined /\ o.function.name # UNDEF
                               /\ o.function.arguments.kind # "undefined"
    THEN [found |-> TRUE, id |-> UNDEF, name |-> o.function.name,
          arguments |-> o.function.arguments]
    ELSE NoCandidate

RECURSIVE findToolCallDeep(_)
findToolCallDeep(items) ==
    IF items = <<>> THEN NoCandidate
    ELSE LET tc == DeepObject(Head(items))
         IN IF tc.found THEN tc ELSE findToolCallDeep(Tail(items))

parseRequest(raw) ==
    IF raw.wrapper = "body" THEN raw
    ELSE IF raw.wrapper = "message" THEN [raw EXCEPT !.wrapper = "body"]
    ELSE IF raw.wrapper = "toolCall"
    THEN LET tc == raw.calls[1]
         IN Payload("body", <<NestedToolCall(tc.id, tc.name, stringifiedArgs(tc.arguments))>>)
    ELSE LET candidate == findToolCallDeep(raw.calls)
         IN IF candidate.found
            THEN Payload("body",
                     <<NestedToolCall(IF candidate.id = UNDEF THEN TOOL_CALL_AUTO
                                                              ELSE candidate.id,
                                      candidate.name,
                                      stringifiedArgs(candidate.arguments))>>)
            ELSE [raw EXCEPT !.depth = @ + 1]

(* how handleVoiceWebhook takes the parsed payload *)
PayloadOutcome(raw) ==
    LET payload == parseRequest(raw)
        hasPotentialTool == raw.wrapper \in {"body", "message", "toolCall"}
    IN IF payload.wrapper # "body" \/ Len(payload.calls) = 0
       THEN IF hasPotentialTool THEN "no_tool_calls" ELSE "rejected"
       ELSE "recognized"

normalizeArguments(args) ==
    [args EXCEPT !.Name = IF args.Name # UNDEF THEN args.Name ELSE args.name]

(* reading function.arguments of a tool call without function throws *)
parseToolArguments(toolCall) ==
    LET rawArgs == toolCall.function.arguments
    IN IF rawArgs.kind \in {"undefined", "badstring"} THEN EmptyArgs
       ELSE normalizeArguments(rawArgs.obj)

extractAppointmentDetails(payload) ==
    LET toolCall == payload.calls[1]
    IN IF ~toolCall.function.defined
       THEN [threw |-> TRUE, toolCallId |-> UNDEF, tool |-> UNDEF, args |-> EmptyArgs]
       ELSE [threw |-> FALSE, toolCallId |-> toolCall.id,
             tool |-> toolCall.function.name, args |-> parseToolArguments(toolCall)]

-----------------------------------------------------------------------------
(* integrations/twilio.ts: webhook signature verification.  A signature or *)
(* a shared-secret header is modelled by whether it is absent, equal to    *)
(* the value the server computes, or different from it; the timestamp      *)
(* header by whether it is absent, not a number, or a number of seconds    *)
(* away from Date.now().                                                   *)

DEFAULT_CLOCK_TOLERANCE_S == 300

HeaderStates == {"absent", "matches", "differs"}
TimestampAges == {0, DEFAULT_CLOCK_TOLERANCE_S, DEFAULT_CLOCK_TOLERANCE_S + 1}
TimestampHeaders ==
    {[kind |-> "absent", age |-> 0], [kind |-> "nan", age |-> 0]}
        \cup {[kind |-> "number", age |-> a] : a \in TimestampAges}

(* the environment and the headers of one webhook request *)
VerifyInputs ==
    [op : {"verify"}, VAPI_SIGNING_SECRET : BOOLEAN, TWILIO_AUTH_TOKEN : BOOLEAN,
     vapiSignature : HeaderStates, vapiTimestamp : TimestampHeaders,
     vapiSecret : HeaderStates, twilioSignature : HeaderStates]

verifyVapiRequest(q) ==
    IF ~q.VAPI_SIGNING_SECRET THEN TRUE
    ELSE IF q.vapiSignature = "absent" /\ q.vapiSecret # "absent"
         THEN q.vapiSecret = "matches"
    ELSE IF q.vapiSignature = "absent" \/ q.vapiTimestamp.kind = "absent" THEN FALSE
    ELSE IF q.vapiSignature # "matches" THEN FALSE
    ELSE IF q.vapiTimestamp.kind = "nan" THEN FALSE
    ELSE IF q.vapiTimestamp.age > DEFAULT_CLOCK_TOLERANCE_S THEN FALSE
    ELSE TRUE

verifyTwilioRequest(q) ==
    IF ~q.TWILIO_AUTH_TOKEN THEN TRUE
    ELSE IF q.twilioSignature = "absent" THEN FALSE
    ELSE q.twilioSignature = "matches"

(* handleVoiceWebhook: the request goes on unless both verifications fail *)
VerifyOutcome(q) ==
    LET verdicts == [vapiValid |-> verifyVapiRequest(q),
                     twilioValid |-> verifyTwilioRequest(q)]
    IN [vapiValid |-> verdicts.vapiValid, twilioValid |-> verdicts.twilioValid,
        http |-> IF SignatureAccepted(verdicts) THEN 0 ELSE 401]

-----------------------------------------------------------------------------
(* Function harness: availability resolution and the alternative search    *)
(* applied to inputs drawn from bounded sets.                              *)

MaxCount == 3
MaxMultiplier == 2
MaxLookaheadDays == 2

FnWalls ==
    { Wall(0, 14, 0, 0),   Wall(0, 8, 59, 59),  Wall(0, 9, 0, 0),
      Wall(0, 17, 30, 0),  Wall(0, 17, 30, 30), Wall(0, 17, 31, 0),
      Wall(0, 17, 59, 59), Wall(0, 18, 0, 0),   Wall(0, 0, 10, 0),
      Wall(4, 17, 0, 0),   Wall(5, 14, 0, 0),   Wall(6, 23, 45, 0),
      Wall(53, 16, 0, 0),  Wall(56, 9, 0, 0),   Wall(0 - 7, 14, 0, 0) }

FnDurations == { 30 * SecPerMin, 30 * SecPerMin + 30, 31 * SecPerMin,
                 SecPerDay + 30 * SecPerMin }

Interval(a, b) == [start |-> WallInstant(a), end |-> WallInstant(b)]

FnBusyIntervals ==
    { Interval(Wall(0, 14, 0, 0),  Wall(0, 14, 30, 0)),
      Interval(Wall(0, 14, 40, 0), Wall(0, 14, 50, 0)),
      Interval(Wall(0, 15, 15, 0), Wall(0, 15, 45, 0)),
      Interval(Wall(0, 17, 0, 0),  Wall(1, 9, 30, 0)),
      Interval(Wall(0, 9, 0, 0),   Wall(2, 18, 0, 0)) }

FnResolveInputs ==
    [op : {"resolve"}, wall : FnWalls, duration : FnDurations,
     busy : SUBSET FnBusyIntervals, up : BOOLEAN]

FnSearchInputs ==
    [op : {"search"}, wall : FnWalls, busy : SUBSET FnBusyIntervals, up : BOOLEAN,
     count : 0..MaxCount, lookAheadDays : 0..MaxLookaheadDays,
     candidateMultiplier : 1..MaxMultiplier]

FnNormalizeInputs == {[op |-> "normalize", raw |-> p] : p \in Payloads}

FnStart == WallInstant(fnIn.wall)
FnCal == [busy |-> fnIn.busy, up |-> fnIn.up]

MachineIdle ==
    /\ now = 0
    /\ faults = 0
    /\ calEvents = {}
    /\ busy0 = {}
    /\ appointments = {}
    /\ req = <<>>
    /\ pc = <<>>
    /\ loc = <<>>
    /\ callLog = <<>>
    /\ response = <<>>
    /\ trace = <<>>

FnInit ==
    /\ hourCycle \in {"h23", "h24"}
    /\ fnIn \in FnResolveInputs \cup FnSearchInputs \cup FnNormalizeInputs
                 \cup VerifyInputs
    /\ fnOut = [op |-> "none"]
    /\ MachineIdle

FnResolve ==
    /\ fnOut.op = "none"
    /\ fnIn.op = "resolve"
    /\ fnOut' = [op |-> "resolve",
                 res |-> checkAvailability(FnStart, FnStart + fnIn.duration, FnCal)]
    /\ UNCHANGED <<hourCycle, fnIn, machineVars>>

FnSearch ==
    /\ fnOut.op = "none"
    /\ fnIn.op = "search"
    /\ fnOut' = [op |-> "search",
                 res |-> findNextAvailableSlots(FnStart, fnIn.count, fnIn.lookAheadDays,
                                                fnIn.candidateMultiplier, FnCal)]
    /\ UNCHANGED <<hourCycle, fnIn, machineVars>>

FnNormalize ==
    /\ fnOut.op = "none"
    /\ fnIn.op = "normalize"
    /\ fnOut' = [op |-> "normalize",
                 payload |-> parseRequest(fnIn.raw),
                 again |-> parseRequest(parseRequest(fnIn.raw)),
                 outcome |-> PayloadOutcome(fnIn.raw)]
    /\ UNCHANGED <<hourCycle, fnIn, machineVars>>

FnVerify ==
    /\ fnOut.op = "none"
    /\ fnIn.op = "verify"
    /\ fnOut' = [op |-> "verify", outcome |-> VerifyOutcome(fnIn)]
    /\ UNCHANGED <<hourCycle, fnIn, machineVars>>

FnNext == FnResolve \/ FnSearch \/ FnNormalize \/ FnVerify

FnSpec == FnInit /\ [][FnNext]_vars

-----------------------------------------------------------------------------
(* Properties of availability resolution and of the alternative search,    *)
(* checked under FnSpec.                                                   *)

FnResolved == fnOut.op = "resolve"
FnSearched == fnOut.op = "search" /\ ~fnOut.res.threw
FnSlots == fnOut.res.slots
FnSearchEnd == SearchEnd(FnStart, fnIn.lookAheadDays)
FnReportedBusy == FreeBusyQuery(fnIn.busy, FnStart, FnSearchEnd)
SlotSeconds == APPOINTMENT_DURATION_MINUTES * SecPerMin

StartOnOpenDay(w) == WallWeekday(w) \in BUSINESS_DAYS
StartInHours(w) ==
    StartOnOpenDay(w) /\ WallMinutes(w) >= OpenMinutes /\ WallMinutes(w) < CloseMinutes
StartOutsideHours(w) ==
    \/ ~StartOnOpenDay(w)
    \/ WallMinutes(w) < OpenMinutes
    \/ WallMinutes(w) >= CloseMinutes

(* seconds from the local midnight of the start's day to the window's end *)
FnEndSeconds ==
    fnIn.wall.h * SecPerHour + fnIn.wall.m * SecPerMin + fnIn.wall.s + fnIn.duration

(* C6: a window whose start is on a closed weekday, before opening or      *)
(* at/after closing resolves to unavailable, reason Outside business       *)
(* hours, with no free/busy query sent.                                    *)
C6_OutsideHoursNoQuery ==
    (FnResolved /\ StartOutsideHours(fnIn.wall))
        => /\ ~fnOut.res.threw
           /\ ~fnOut.res.available
           /\ fnOut.res.reason = REASON_OUTSIDE
           /\ fnOut.res.queries = 0

C6_Witness ==
    /\ FnResolved
    /\ fnIn.up /\ fnIn.busy = {}
    /\ StartOnOpenDay(fnIn.wall) /\ WallMinutes(fnIn.wall) >= CloseMinutes
    /\ fnOut.res.reason = REASON_OUTSIDE
    /\ fnOut.res.queries = 0

(* C7: a window starting in hours and ending exactly at closing time       *)
(* passes the business-hours check (the calendar is asked); ending one     *)
(* minute after closing it is rejected as extending beyond business hours; *)
(* a start exactly at closing time is rejected.                            *)
C7_ClosingBoundary ==
    FnResolved =>
        /\ (StartInHours(fnIn.wall) /\ FnEndSeconds = CloseMinutes * SecPerMin)
              => /\ fnOut.res.reason \notin {REASON_OUTSIDE, REASON_EXTENDS}
                 /\ fnOut.res.queries = 1
        /\ (StartInHours(fnIn.wall) /\ FnEndSeconds = (CloseMinutes + 1) * SecPerMin)
              => /\ ~fnOut.res.available
                 /\ fnOut.res.reason = REASON_EXTENDS
        /\ (StartOnOpenDay(fnIn.wall) /\ WallMinutes(fnIn.wall) = CloseMinutes)
              => /\ ~fnOut.res.available
                 /\ fnOut.res.reason = REASON_OUTSIDE

C7_Witness ==
    /\ FnResolved
    /\ StartInHours(fnIn.wall)
    /\ FnEndSeconds = CloseMinutes * SecPerMin
    /\ fnOut.res.available

(* C8: no window the search returns overlaps a busy interval the calendar  *)
(* reported for the lookahead range.                                       *)
C8_NoOverlapWithBusy ==
    FnSearched =>
        \A i \in DOMAIN FnSlots : \A b \in FnReportedBusy :
            FnSlots[i] + SlotSeconds <= b.start \/ b.end <= FnSlots[i]

C8_Witness ==
    /\ FnSearched
    /\ Len(FnSlots) > 0
    /\ \E b \in FnReportedBusy :
          FnStart < b.end /\ b.end <= FnSlots[Len(FnSlots)]

(* C9: the search returns at most count windows.                           *)
C9_AtMostCount ==
    FnSearched => Len(FnSlots) <= fnIn.count

C9_Witness ==
    /\ FnSearched
    /\ fnIn.count >= 1
    /\ fnIn.candidateMultiplier >= 2
    /\ Len(FnSlots) = fnIn.count

(* C10: the returned starts are in non-decreasing order, none is before    *)
(* the requested start, and every window lies inside the lookahead range.  *)
C10_OrderedWithinRange ==
    FnSearched =>
        /\ \A i, j \in DOMAIN FnSlots : i < j => FnSlots[i] <= FnSlots[j]
        /\ \A i \in DOMAIN FnSlots :
              /\ FnSlots[i] >= FnStart
              /\ FnSlots[i] + SlotSeconds <= FnSearchEnd

C10_Witness ==
    /\ FnSearched
    /\ Len(FnSlots) >= 2
    /\ FnSlots[1] > FnStart

-----------------------------------------------------------------------------
(* Properties of the request flows *)

FreeWindow == Window(T_Free, T_Free + DIRECT_DURATION_MINUTES * SecPerMin)

HasDate(r) == req[r].dateTime.kind = "instant"

(* the window the request asks for *)
RequestedWindow(r) ==
    Window(req[r].dateTime.t, req[r].dateTime.t + DIRECT_DURATION_MINUTES * SecPerMin)

(* the requested window had ended, or had started, when the request came in *)
WindowEnded(r) == HasDate(r) /\ RequestedWindow(r).end <= Now0
DateInPast(r) == HasDate(r) /\ req[r].dateTime.t < Now0

(* the request got as far as the past-date guard *)
WellFormed(r) == SignatureAccepted(req[r]) /\ req[r].payload = "toolcall" /\ req[r].name
Routed(r) == req[r].called = "none" \/ loc[r].businessId

PastReplySent(r) == response[r].http = 200 /\ response[r].body = PAST_REPLY

EventsOf(r) == {e \in calEvents : e.by = r}
AppointmentsOf(r) == {a \in appointments : a.by = r}

(* C1: every createEvent call a flow makes for a window comes after an     *)
(* availability resolution of that window, in the same flow, that said     *)
(* available: on the direct path and for every bookAppointment tool call.  *)
C1_CheckBeforeBook ==
    \A r \in Requests : trace[r].createCalls \subseteq trace[r].resolvedOk

(* an agent tool call booked a window and its event was created *)
C1_Witness ==
    \E r \in Requests :
        /\ loc[r].caller = "tool"
        /\ trace[r].createCalls # {}
        /\ EventsOf(r) # {}

(* C2: while a flow is on the direct path, it reports booked only with its *)
(* calendar event created and its appointment persisted; once createEvent  *)
(* or the persistence call has failed it never reports booked, and its     *)
(* next step is the alternative search with count 3.                       *)
C2_BookedOnlyAfterBothWrites ==
    \A r \in Requests :
        loc[r].path = "direct" =>
            /\ loc[r].result.status = "booked" =>
                  /\ trace[r].created = 1 /\ trace[r].persisted = 1
                  /\ \E e \in EventsOf(r) : Window(e.start, e.end) = RequestedWindow(r)
                  /\ \E a \in AppointmentsOf(r) : Window(a.start, a.end) = RequestedWindow(r)
            /\ (/\ trace[r].createCalls # {}
                /\ pc[r] \notin {"book_create", "book_persist"}
                /\ trace[r].persisted = 0) =>
                  /\ loc[r].result.status # "booked"
                  /\ pc[r] = "alt_search" \/ trace[r].searches = {ALTERNATIVE_COUNT}
            /\ trace[r].searches \subseteq {ALTERNATIVE_COUNT}

(* the event was created, persisting failed, alternatives were offered *)
C2_Witness ==
    \E r \in Requests :
        /\ loc[r].path = "direct"
        /\ trace[r].created = 1 /\ trace[r].persisted = 0
        /\ "appointment.create" \in trace[r].db
        /\ trace[r].searches = {ALTERNATIVE_COUNT}
        /\ loc[r].result.status = "suggested_alternatives"
        /\ pc[r] = "done"

(* the race began with one failure allowed and it has not happened *)
NoFailureYet == faults = 1

(* C3: nothing excludes a second booking of a window: while no collaborator *)
(* call has failed, a flow that passed its availability checks has its     *)
(* event created and is reported booked whatever the other flow did in     *)
(* between, and two flows booked for one window leave two events and two   *)
(* appointments for it.                                                    *)
C3_NoMutualExclusion ==
    /\ \A r \in Requests :
          (/\ NoFailureYet
           /\ loc[r].path = "direct"
           /\ trace[r].createCalls # {}) =>
              /\ EventsOf(r) # {}
              /\ pc[r] \in {"book_persist", "update_log", "done"}
              /\ pc[r] \in {"update_log", "done"} => loc[r].result.status = "booked"
    /\ \A r1, r2 \in Requests :
          (/\ r1 # r2
           /\ loc[r1].result.status = "booked" /\ loc[r1].path = "direct"
           /\ loc[r2].result.status = "booked" /\ loc[r2].path = "direct") =>
              /\ Cardinality({e \in calEvents : Window(e.start, e.end) = FreeWindow}) = 2
              /\ Cardinality({a \in appointments : Window(a.start, a.end) = FreeWindow}) = 2

(* both flows asked for the same free window and both were told booked *)
C3_Witness ==
    /\ \A r \in Requests :
          /\ RequestedWindow(r) = FreeWindow
          /\ pc[r] = "done"
          /\ loc[r].path = "direct"
          /\ loc[r].result.status = "booked"
          /\ response[r].http = 200
          /\ callLog[r].status = "booked"
    /\ Cardinality({e \in calEvents : Window(e.start, e.end) = FreeWindow}) = 2

(* C4: a request whose window had ended when it came in never reaches the  *)
(* calendar (no free/busy query, no createEvent), and once it is through   *)
(* routing and validation its reply is the past-date failure.              *)
C4_PastWindowRejected ==
    \A r \in Requests :
        WindowEnded(r) =>
            /\ trace[r].calendar = {}
            /\ trace[r].createCalls = {}
            /\ pc[r] \in {"start", "validate", "done"}
            /\ (pc[r] = "done" /\ WellFormed(r) /\ Routed(r)) => PastReplySent(r)

(* the window ended exactly when the request came in; the reply was sent *)
C4_Witness ==
    \E r \in Requests :
        /\ req[r].dateTime = At(T_JustEnded)
        /\ now = Now0
        /\ PastReplySent(r)

(* C5 as stated: handling a request with a past date makes no persistence  *)
(* call at all before the past-date reply.                                 *)
C5_NoPersistenceCall ==
    \A r \in Requests : PastReplySent(r) => trace[r].db = {}

(* C5: a request with a date in the past creates and updates no call log   *)
(* and creates no appointment; the one persistence access before the       *)
(* past-date reply is the lookup of the business by the called number,     *)
(* made exactly when the payload carries a called number.                  *)
C5_OnlyBusinessLookup ==
    \A r \in Requests :
        (DateInPast(r) \/ PastReplySent(r)) =>
            /\ trace[r].db \subseteq {"business.findUnique"}
            /\ callLog[r] = NoCallLog
            /\ AppointmentsOf(r) = {}
            /\ PastReplySent(r) =>
                  (trace[r].db = {} <=> req[r].called = "none")

(* the past-date reply went out after the business was looked up *)
C5_Witness ==
    \E r \in Requests :
        /\ req[r].dateTime = At(T_Past)
        /\ req[r].called = "known"
        /\ PastReplySent(r)
        /\ trace[r].db = {"business.findUnique"}

-----------------------------------------------------------------------------
(* Completeness of the alternative search, checked under FnSpec.           *)

(* the starts at slot-duration increments from the requested start whose   *)
(* slot fits before the end of the lookahead range                         *)
FnCandidates ==
    {c \in {FnStart + k * SlotSeconds :
                k \in 0..((FnSearchEnd - FnStart) \div SlotSeconds)} :
        c + SlotSeconds <= FnSearchEnd}

(* free of the busy intervals and within the business-hours rule *)
FnAcceptable(c) ==
    /\ \A b \in fnIn.busy : ~(c < b.end /\ b.start < c + SlotSeconds)
    /\ isWithinBusinessHours(c, FALSE)
    /\ isWithinBusinessHours(c + SlotSeconds, TRUE)

FnOffered == {FnSlots[i] : i \in DOMAIN FnSlots}

(* C11 as stated: a search that returns fewer than count windows leaves no *)
(* candidate in the lookahead range that is free and within business      *)
(* hours.                                                                  *)
C11_FewerOnlyWhenExhausted ==
    (FnSearched /\ Len(FnSlots) < fnIn.count) =>
        \A c \in FnCandidates : FnAcceptable(c) => c \in FnOffered

-----------------------------------------------------------------------------
(* Scenarios of the direct path, checked under Spec.                       *)

(* the direct path has produced the flow's result *)
DirectResult(r) == loc[r].path = "direct" /\ pc[r] \in {"update_log", "done"}

(* the calendar holds nothing: no busy interval, no event *)
CalendarFree == busy0 = {} /\ calEvents = {}

NextMonday == Wall(7, 0, 0, 0)

(* C12 as stated: a request for Saturday 14:00 on a free calendar is       *)
(* answered with a non-empty list of alternatives whose first window is on *)
(* the next open weekday, the Monday that follows.                         *)
C12_ClosedDayOffersNextBusinessDay ==
    \A r \in Requests :
        (req[r].dateTime = At(T_Saturday) /\ CalendarFree /\ DirectResult(r)) =>
            /\ loc[r].result.status = "suggested_alternatives"
            /\ loc[r].result.times # <<>>
            /\ loc[r].result.times[1] >= WallInstant(NextMonday)
            /\ loc[r].result.times[1] < WallInstant(NextMonday) + SecPerDay

(* the requested slot is in hours and is the one busy interval *)
RequestedSlotBusy(r) ==
    /\ HasDate(r)
    /\ isWithinBusinessHours(RequestedWindow(r).start, FALSE)
    /\ isWithinBusinessHours(RequestedWindow(r).end, TRUE)
    /\ busy0 = {RequestedWindow(r)}
    /\ calEvents = {}

(* a 30-minute window from t lies within business hours *)
WindowInHours(t) ==
    /\ isWithinBusinessHours(t, FALSE)
    /\ isWithinBusinessHours(t + DIRECT_DURATION_MINUTES * SecPerMin, TRUE)

(* C13 as stated: when the requested in-hours slot is busy and the rest of *)
(* the calendar is free, the flow offers exactly 3 alternatives, each      *)
(* after the requested start and within business hours.                    *)
C13_BusySlotOffersThree ==
    \A r \in Requests :
        (RequestedSlotBusy(r) /\ DirectResult(r)) =>
            /\ loc[r].result.status = "suggested_alternatives"
            /\ Len(loc[r].result.times) = ALTERNATIVE_COUNT
            /\ \A i \in DOMAIN loc[r].result.times :
                  /\ loc[r].result.times[i] > req[r].dateTime.t
                  /\ WindowInHours(loc[r].result.times[i])

-----------------------------------------------------------------------------
(* Properties of the tool-calling agent, checked under Spec.               *)

MAX_ITERATIONS_REPLY == "Unable to complete appointment booking. Please try again."

(* the flow has left the agent loop, by a result or by an exception *)
AgentLeft(r) == loc[r].path = "agent" /\ pc[r] \in {"update_log", "done"}

(* every model call of the flow was answered with tool calls *)
OnlyToolTurns(r) == trace[r].toolTurns = loc[r].iteration

(* C14 as stated: when the model answers every turn with at least one tool *)
(* call, the loop calls the model exactly 10 times and ends with the       *)
(* failure of the iteration ceiling; the model is never called more than   *)
(* 10 times for a request.                                                 *)
C14_LoopBounded ==
    \A r \in Requests :
        /\ loc[r].iteration <= maxIterations
        /\ (AgentLeft(r) /\ OnlyToolTurns(r)) =>
              /\ loc[r].iteration = maxIterations
              /\ loc[r].result.status = "failed"
              /\ loc[r].result.message = MAX_ITERATIONS_REPLY

(* C15 as stated: a tool call whose arguments cannot be parsed, or whose   *)
(* execution throws, ends with an error text for that call only: while a  *)
(* turn's tool calls are pending the flow is executing one of them, and    *)
(* never leaves the loop.                                                  *)
C15_ToolFailureKeepsLoop ==
    \A r \in Requests :
        loc[r].tools # <<>> =>
            pc[r] \in {"agent_tool", "book_check", "book_create", "book_persist"}

(* the flow's last model turn carried no tool call: its text is the result *)
EndedByText(r) ==
    /\ loc[r].path = "agent"
    /\ trace[r].toolTurns < loc[r].iteration
    /\ loc[r].result.status # "none"

ResultWords(r) == toLowerCase(Words(loc[r].result.message))

MentionsAlternatives(r) ==
    \/ includes(ResultWords(r), <<"unavailable">>)
    \/ includes(ResultWords(r), <<"these", "times", "are">>)

(* C16 as stated: a turn without tool calls ends the loop, and its text is *)
(* classified booked when it contains the word booked, else alternatives   *)
(* when it contains unavailable or these times are, else failed.           *)
C16_ClassifiedByKeyword ==
    \A r \in Requests :
        EndedByText(r) =>
            /\ pc[r] \in {"update_log", "done"}
            /\ loc[r].result.status =
                  IF includes(ResultWords(r), <<"booked">>) THEN "booked"
                  ELSE IF MentionsAlternatives(r) THEN "suggested_alternatives"
                  ELSE "failed"

(* C16: a turn without tool calls ends the loop on that turn, and its text *)
(* is classified booked when it contains, in any letter case, the phrase   *)
(* appointment has been booked; else alternatives when it contains         *)
(* unavailable or these times are; else failed.                            *)
C16_ClassifiedByPhrase ==
    \A r \in Requests :
        /\ (loc[r].path = "agent" /\ trace[r].toolTurns < loc[r].iteration
               /\ response[r].http # 500) => EndedByText(r)
        /\ EndedByText(r) =>
              /\ pc[r] \in {"update_log", "done"}
              /\ loc[r].result.status \in {"booked", "suggested_alternatives", "failed"}
              /\ loc[r].result.status = "booked" <=>
                    includes(ResultWords(r), BOOKED_PHRASE)
              /\ loc[r].result.status = "suggested_alternatives" <=>
                    (~includes(ResultWords(r), BOOKED_PHRASE) /\ MentionsAlternatives(r))

(* the model said the slot is booked, without the phrase: classified failed *)
C16_Witness ==
    \E r \in Requests :
        /\ EndedByText(r)
        /\ loc[r].result.message = "Your slot is booked"
        /\ loc[r].result.status = "failed"
        /\ pc[r] = "done"

(* C17 as stated: when a model call throws or returns no message, the      *)
(* agent ends with the result failed, handed back as a value: the flow     *)
(* goes on to record it and no exception reaches the controller.           *)
C17_ModelErrorBecomesFailed ==
    \A r \in Requests :
        trace[r].modelErrors > 0 =>
            /\ loc[r].result.status = "failed"
            /\ pc[r] \in {"update_log", "done"}
            /\ pc[r] = "done" => callLog[r].status # "pending"

-----------------------------------------------------------------------------
(* Calendar errors on the direct path and the fallback to the agent,       *)
(* checked under Spec.                                                     *)

(* the alternative search is the flow's next step, or it has run *)
SearchFollows(r) == pc[r] = "alt_search" \/ trace[r].searches = {ALTERNATIVE_COUNT}

(* the agent is the flow's next step, or it has run *)
AgentFollows(r) == pc[r] = "agent_turn" \/ loc[r].path = "agent"

ModelInvoked(r) == loc[r].iteration > 0

-----------------------------------------------------------------------------
(* The shape of the reply, checked under Spec.                             *)

Replied(r) == pc[r] = "done"

-----------------------------------------------------------------------------
(* Validation and routing of the inbound request, checked under Spec.      *)

(* the request passed the signature check and holds a tool call *)
Admitted(r) == SignatureAccepted(req[r]) /\ req[r].payload = "toolcall"

NoCollaboratorCall(r) ==
    /\ trace[r].db = {}
    /\ trace[r].calendar = {}
    /\ ~ModelInvoked(r)

(* C21 as stated: a request without a caller name, or with an unparseable  *)
(* date, is rejected at once and no calendar, model or persistence call is *)
(* made for it.                                                            *)
C21_InvalidRequestRejected ==
    \A r \in Requests :
        (Admitted(r) /\ (~req[r].name \/ req[r].dateTime = BadDate)) =>
            /\ NoCollaboratorCall(r)
            /\ pc[r] \in {"start", "validate", "done"}
            /\ (Replied(r) /\ Routed(r)) => response[r].http = 400

(* C21: a request without a caller name is rejected at once with 400 Name  *)
(* is required: no calendar or model call, no call log, no appointment,    *)
(* the one persistence access being the lookup of the business by the      *)
(* called number. An unparseable date is no ground for rejection: the      *)
(* request gets its call log and is handed to the agent, never to the      *)
(* direct path.                                                            *)
C21_NamelessRejectedBadDateToAgent ==
    \A r \in Requests :
        /\ (Admitted(r) /\ ~req[r].name) =>
              /\ trace[r].calendar = {} /\ ~ModelInvoked(r)
              /\ trace[r].db \subseteq {"business.findUnique"}
              /\ trace[r].db = {} <=> (req[r].called = "none" \/ pc[r] = "start")
              /\ callLog[r] = NoCallLog
              /\ pc[r] \in {"start", "validate", "done"}
              /\ (Replied(r) /\ Routed(r)) =>
                    response[r] = ErrorJson(400, "Name is required")
        /\ (WellFormed(r) /\ req[r].dateTime = BadDate) =>
              /\ loc[r].path \in {"none", "agent"}
              /\ trace[r].searches = {} /\ trace[r].calErrors \subseteq {"tool"}
              /\ (Replied(r) /\ response[r].http = 200 /\ Routed(r)) =>
                    /\ ModelInvoked(r)
                    /\ "callLog.create" \in trace[r].db

(* a request with an unparseable date was answered by the agent *)
C21_Witness ==
    \E r \in Requests :
        /\ req[r].dateTime = BadDate
        /\ Replied(r)
        /\ response[r].http = 200
        /\ EndedByText(r)
        /\ callLog[r].updates = 1


-----------------------------------------------------------------------------
(* Payload normalization, checked under FnSpec.                            *)

FnNormalized == fnOut.op = "normalize"

(* the id, name and arguments an object carries, in either form *)
Logical(o) ==
    IF o.function.defined
    THEN [id |-> o.id, name |-> o.function.name, arguments |-> o.function.arguments]
    ELSE [id |-> o.id, name |-> o.name, arguments |-> o.arguments]

Populated(l) ==
    l.id # UNDEF /\ l.name # UNDEF /\ l.arguments.kind \in {"string", "object"}

(* the payloads that deliver one logical tool call: the two toolCalls      *)
(* lists, the top-level toolCall, and an unknown wrapper around the call   *)
(* in either form                                                          *)
Deliveries(l) ==
    { Payload("body", <<NestedToolCall(l.id, l.name, l.arguments)>>),
      Payload("message", <<NestedToolCall(l.id, l.name, l.arguments)>>),
      Payload("toolCall", <<FlatToolCall(l.id, l.name, l.arguments)>>),
      Payload("unknown", <<FlatToolCall(l.id, l.name, l.arguments)>>),
      Payload("unknown", <<NestedToolCall(l.id, l.name, l.arguments)>>) }

(* C23 as stated: every delivery of one logical tool call with id, name    *)
(* and arguments normalizes to the same invocation (id, name, parsed       *)
(* arguments), and normalizing the normalized payload changes nothing.     *)
C23_ShapeAgnosticIdempotent ==
    (FnNormalized /\ Len(fnIn.raw.calls) = 1) =>
        LET l == Logical(fnIn.raw.calls[1])
        IN (Populated(l) /\ fnIn.raw \in Deliveries(l)) =>
              /\ fnOut.outcome = "recognized"
              /\ fnOut.again = fnOut.payload
              /\ \A d \in Deliveries(l) :
                    extractAppointmentDetails(parseRequest(d))
                        = extractAppointmentDetails(fnOut.payload)

(* C24 as stated: a payload taken as recognized holds a tool call whose    *)
(* id, name and arguments are all populated.                               *)
C24_RecognizedIsPopulated ==
    (FnNormalized /\ fnOut.outcome = "recognized") =>
        /\ Len(fnOut.payload.calls) >= 1
        /\ LET toolCall == fnOut.payload.calls[1]
           IN /\ toolCall.id # UNDEF
              /\ toolCall.function.defined
              /\ toolCall.function.name # UNDEF
              /\ toolCall.function.arguments.kind # "undefined"

-----------------------------------------------------------------------------
(* The call log, checked under Spec.                                       *)

(* the request passed routing and validation *)
Accepted(r) == pc[r] \notin {"absent", "start", "validate"} /\ WellFormed(r) /\ loc[r].path # "none"

(* C25 as stated: a request accepted for processing has its call log       *)
(* created before any calendar or model call and, once answered, updated   *)
(* exactly once with the status of the outcome; no update is made before   *)
(* the resolution.                                                         *)
C25_LogCreatedThenUpdatedOnce ==
    \A r \in Requests :
        /\ (trace[r].calendar # {} \/ ModelInvoked(r)) => loc[r].callLogId
        /\ Accepted(r) =>
              /\ loc[r].callLogId
              /\ "callLog.create" \in trace[r].db
              /\ callLog[r].updates = IF Replied(r) THEN 1 ELSE 0
              /\ Replied(r) => callLog[r].status \in {"booked", "suggested_alternatives", "failed"}

-----------------------------------------------------------------------------
(* A webhook delivered twice, checked under RaceSpec.                      *)

(* both deliveries carry the same tool-call id and the same arguments *)
Redelivered ==
    /\ req[1].toolCallId = req[2].toolCallId
    /\ req[1].dateTime = req[2].dateTime
    /\ req[1].name = req[2].name

-----------------------------------------------------------------------------
(* Length of what is booked, checked under Spec.                           *)

(* C27 as stated: every calendar event created and every appointment       *)
(* persisted, on the direct path or the agent path, lasts the slot         *)
(* duration.                                                               *)
C27_EveryBookingLastsOneSlot ==
    /\ \A e \in calEvents : e.end - e.start = APPOINTMENT_DURATION_MINUTES * SecPerMin
    /\ \A a \in appointments : a.end - a.start = APPOINTMENT_DURATION_MINUTES * SecPerMin

-----------------------------------------------------------------------------
(* Signature enforcement, checked under Spec.                              *)

NoProcessing(r) ==
    /\ trace[r].calendar = {} /\ ~ModelInvoked(r)
    /\ callLog[r] = NoCallLog
    /\ trace[r].db \subseteq {"business.findUnique"}
    /\ pc[r] \in {"start", "validate", "done"}

Refused401(r) == response[r] = ErrorJson(401, "Invalid webhook signature")

-----------------------------------------------------------------------------
(* The agent's transcript, checked under Spec.                             *)

History(r) == loc[r].conversationHistory

(* from turn j on the transcript is made of rounds: an assistant message,  *)
(* then one tool turn per tool call of the message, with its id, in the    *)
(* order of the calls; the last message may still wait for its tool turns, *)
(* and a message without tool calls is the last turn                       *)
RECURSIVE RoundsFrom(_, _)
RoundsFrom(h, j) ==
    IF j > Len(h) THEN TRUE
    ELSE /\ h[j].role = "assistant"
         /\ LET n == Len(h[j].ids)
            IN IF j = Len(h) THEN TRUE
               ELSE /\ n > 0
                    /\ j + n <= Len(h)
                    /\ \A k \in 1..n : h[j + k] = Turn("tool", <<h[j].ids[k]>>)
                    /\ RoundsFrom(h, j + n + 1)

WellOrdered(r) ==
    LET h == History(r)
    IN /\ h = <<>> <=> loc[r].iteration = 0
       /\ h # <<>> =>
             /\ Len(h) >= 2
             /\ h[1].role = "system" /\ h[2].role = "user"
             /\ RoundsFrom(h, 3)
             /\ (pc[r] = "agent_turn" /\ Len(h) > 2) => h[Len(h)].role = "tool"

IsPrefix(s, t) == Len(s) <= Len(t) /\ \A i \in 1..Len(s) : s[i] = t[i]

AppendOnly == \A r \in Requests : IsPrefix(History(r), History(r)')

(* C29: the transcript only grows by appending; it starts with the system  *)
(* instruction and one user turn; each round appends the assistant message *)
(* and then, for every tool call of that message, exactly one tool turn    *)
(* with the call's id, in the order of the calls, all of them before the   *)
(* model is called again.                                                  *)
C29_TranscriptWellOrdered ==
    /\ [](\A r \in Requests : WellOrdered(r))
    /\ [][AppendOnly]_vars

(* a message of two tool calls got its two tool turns, then the model      *)
(* answered with a text                                                    *)
C29_Witness ==
    \E r \in Requests :
        LET h == History(r)
        IN /\ Replied(r)
           /\ response[r].http = 200
           /\ Len(h) = 6
           /\ Len(h[3].ids) = 2
           /\ h[4] = Turn("tool", <<h[3].ids[1]>>)
           /\ h[5] = Turn("tool", <<h[3].ids[2]>>)
           /\ h[3].ids[1] # h[3].ids[2]
           /\ h[6] = Turn("assistant", <<>>)

-----------------------------------------------------------------------------
(* The booked status on either path, checked under Spec.                   *)

(* C30 as stated: on the direct path and on the agent path, a request      *)
(* whose final status is booked has created a calendar event and persisted *)
(* an appointment.                                                         *)
C30_BookedMeansBothWrites ==
    \A r \in Requests :
        (loc[r].result.status = "booked" \/ callLog[r].status = "booked") =>
            /\ EventsOf(r) # {}
            /\ AppointmentsOf(r) # {}

-----------------------------------------------------------------------------
(* What a request leaves behind, checked under Spec.                       *)

(* C31 as stated: a request answered with an outcome other than booked     *)
(* has left no calendar event of its own in the calendar.                  *)
C31_NoOrphanEvents ==
    \A r \in Requests :
        (Replied(r) /\ loc[r].result.status # "booked") => EventsOf(r) = {}


(* C32 as stated: one request creates at most one calendar event and at    *)
(* most one appointment, whatever tool calls the model makes.              *)
C32_AtMostOneBooking ==
    \A r \in Requests :
        /\ Cardinality(EventsOf(r)) <= 1
        /\ Cardinality(AppointmentsOf(r)) <= 1


(* C33 as stated: by the time the response is sent, a call log that was    *)
(* created has left the pending status for booked, suggested_alternatives  *)
(* or failed, also when a collaborator threw after it was created.         *)
C33_LogLeavesPending ==
    \A r \in Requests :
        (Replied(r) /\ loc[r].callLogId) =>
            callLog[r].status \in {"booked", "suggested_alternatives", "failed"}

(* C34 as stated: a call log with status booked holds the window of the    *)
(* appointment that was booked, and a call log with another status holds   *)
(* no booked window.                                                       *)
C34_BookedLogHoldsWindow ==
    \A r \in Requests :
        IF callLog[r].status = "booked"
        THEN /\ callLog[r].bookedStart # <<>> /\ callLog[r].bookedEnd # <<>>
             /\ \E a \in AppointmentsOf(r) :
                   /\ callLog[r].bookedStart = <<a.start>>
                   /\ callLog[r].bookedEnd = <<a.end>>
        ELSE callLog[r].bookedStart = <<>> /\ callLog[r].bookedEnd = <<>>

-----------------------------------------------------------------------------
(* The windows sent to the calendar, checked under FnSpec.                 *)

(* C35 as stated: a window for which checkAvailability sends a free/busy   *)
(* query ends after it starts and lies within one business day: its start  *)
(* is within the hours of an open day and its end is no later than the     *)
(* close of that same day.                                                 *)
C35_QueriedWindowInOneDay ==
    (FnResolved /\ fnOut.res.queries > 0) =>
        /\ fnIn.duration > 0
        /\ StartInHours(fnIn.wall)
        /\ FnEndSeconds <= CloseMinutes * SecPerMin

-----------------------------------------------------------------------------
(* The alternatives offered after a failed direct booking.                 *)

(* the direct path found the requested window available, tried to book it, *)
(* and answered with alternatives: the booking failed                      *)
DirectBookingFailed(r) ==
    /\ loc[r].path = "direct"
    /\ trace[r].createCalls # {}
    /\ loc[r].result.status = "suggested_alternatives"

(* C36 as stated: after a failed booking of a window that was resolved as  *)
(* available, every alternative offered starts strictly after the          *)
(* requested start.                                                        *)
C36_AlternativesAfterRequested ==
    \A r \in Requests :
        DirectBookingFailed(r) =>
            \A k \in 1..Len(loc[r].result.times) :
                loc[r].result.times[k] > req[r].dateTime.t

-----------------------------------------------------------------------------
(* Signature verification, checked under FnSpec.                           *)

FnVerified == fnOut.op = "verify"

(* the request carries a Vapi signature that matches, with a timestamp     *)
(* within the tolerance                                                    *)
ValidVapiSignature(q) ==
    /\ q.vapiSignature = "matches"
    /\ q.vapiTimestamp.kind = "number"
    /\ q.vapiTimestamp.age <= DEFAULT_CLOCK_TOLERANCE_S

(* C37 as stated: with VAPI_SIGNING_SECRET configured, a request carrying  *)
(* neither a valid Vapi signature nor a matching shared-secret header is   *)
(* answered 401, whatever the Twilio configuration is.                     *)
C37_VapiSecretEnforced ==
    (/\ FnVerified
     /\ fnIn.VAPI_SIGNING_SECRET
     /\ ~ValidVapiSignature(fnIn)
     /\ fnIn.vapiSecret # "matches") =>
        fnOut.outcome.http = 401

-----------------------------------------------------------------------------
(* Windows in the past.  Under Spec the request is received at Now0: no    *)
(* time passes before its handler starts.                                  *)

(* C38: no calendar event is created, and no insert is attempted, for a    *)
(* window that starts before the instant the request was received, on the  *)
(* direct path and through the bookAppointment tool alike.                 *)
C38_NoEventBeforeReceipt ==
    \A r \in Requests :
        /\ \A e \in EventsOf(r) : e.start >= Now0
        /\ \A w \in trace[r].createCalls : w.start >= Now0

(* an event has just been created for a window that starts after the      *)
(* request was received and before the present instant: the guards read    *)
(* the clock when they ran, and time went on while the request was handled *)
C38_Witness ==
    \E r \in Requests :
        \E e \in EventsOf(r) :
            /\ e.start >= Now0
            /\ e.start < now
            /\ e.n = trace[r].created
            /\ pc[r] = "book_persist"
====
